---- MODULE Spec2Model ----
(***************************************************************************)
(* A model of the data plane of bishop:                                    *)
(*   - lazy-datafusion  : LazyMemTable / LazyExec (the lazy cache wrapper) *)
(*   - mongodb-datafusion: MongoStream (the source record-batch stream)    *)
(*   - mongodb-arrow     : DocumentsReader / DocumentBuilder               *)
(* Spec       is the lazy cache wrapper, driven by concurrent callers.     *)
(* SpecStream is one MongoStream polled over an arbitrary cursor.          *)
(***************************************************************************)
EXTENDS Integers, Sequences, FiniteSets, TLC

(***************************************************************************)
(* Bounds of the model.                                                    *)
(***************************************************************************)
\* number of callers; each does one scan and then one execute of its plan
NCalls == 2
\* output partitions of the upstream plan
NParts == 2
\* the upstream's contents change at most MaxVersion - 1 times
MaxVersion == 2

Calls == 1..NCalls
Parts == 1..NParts

Min(a, b) == IF a < b THEN a ELSE b

(***************************************************************************)
(* Data.  The upstream schema has the fields "a" and "b"; a record batch   *)
(* is its schema (field names, in column order) and its rows (row ids: the *)
(* cell of row r in column f is the pair <<r, f>>).                        *)
(***************************************************************************)
UpstreamSchema == <<"a", "b">>

Batch(schema, rows) == [schema |-> schema, rows |-> rows]

\* Option<Vec<usize>>: None, or Some(cols) with 0-based column indices
NoProjection == [some |-> FALSE, cols |-> <<>>]
SomeProjection(cols) == [some |-> TRUE, cols |-> cols]

\* the scan arguments (projection, batch_size, filters) callers use
ScanArgs ==
    { [proj |-> NoProjection, bs |-> 2, filters |-> <<"f">>],
      [proj |-> SomeProjection(<<1, 0>>), bs |-> 1, filters |-> <<>>],
      [proj |-> SomeProjection(<<2>>), bs |-> 2, filters |-> <<>>] }

(***************************************************************************)
(* Projection of a schema: the fields at the given 0-based indices, or an  *)
(* error when an index is out of range (LazyMemTable::scan, MemTable::scan)*)
(***************************************************************************)
ProjectionInRange(proj, schema) ==
    \A i \in 1..Len(proj.cols) : proj.cols[i] < Len(schema)

ProjectSchema(proj, schema) ==
    IF proj.some
    THEN [i \in 1..Len(proj.cols) |-> schema[proj.cols[i] + 1]]
    ELSE schema

ProjectBatch(proj, b) == Batch(ProjectSchema(proj, b.schema), b.rows)

\* rows of partition p of the upstream table at version ver
RECURSIVE RowsFrom(_, _)
RowsFrom(base, n) == IF n = 0 THEN <<>> ELSE RowsFrom(base, n - 1) \o <<base + n>>
UpstreamRows(ver, p) == RowsFrom(10 * p, ver)

\* every way to cut rows into non-empty batches of at most bs rows
RECURSIVE Chunkings(_, _)
Chunkings(rows, bs) ==
    IF rows = <<>> THEN { <<>> }
    ELSE UNION { { <<SubSeq(rows, 1, k)>> \o rest :
                     rest \in Chunkings(SubSeq(rows, k + 1, Len(rows)), bs) } :
                 k \in 1..Min(bs, Len(rows)) }

OkItem(b) == [ok |-> TRUE, batch |-> b]
ErrItem == [ok |-> FALSE, batch |-> Batch(<<>>, <<>>)]

ItemsOf(schema, chunks) == [i \in 1..Len(chunks) |-> OkItem(Batch(schema, chunks[i]))]

\* The streams the upstream plan's partition p can produce for a scan with
\* the arguments args: the rows in order, cut into batches of at most bs rows; the
\* same cut short by an error item; or batches of a schema that is not the
\* provider's schema (which MemTable::try_new rejects).
UpstreamStreams(ver, p, args) ==
    LET cuts == Chunkings(UpstreamRows(ver, p), args.bs)
        schema == ProjectSchema(args.proj, UpstreamSchema)
    IN  { ItemsOf(schema, c) : c \in cuts }
        \cup { SubSeq(ItemsOf(schema, c), 1, j) \o <<ErrItem>> :
                 c \in cuts, j \in 0..1 }
        \cup { ItemsOf(<<"a">>, c) : c \in cuts }

(***************************************************************************)
(* futures TryStreamExt::try_collect::<Vec<_>>: all the items, or the      *)
(* first error (what was collected before it is dropped).                  *)
(***************************************************************************)
RECURSIVE TryCollectPrefixOnError(_)
TryCollectPrefixOnError(stream) ==
    IF stream = <<>> THEN [ok |-> TRUE, batches |-> <<>>]
    ELSE IF ~Head(stream).ok THEN [ok |-> TRUE, batches |-> <<>>]
    ELSE LET rest == TryCollectPrefixOnError(Tail(stream))
         IN  [ok |-> TRUE, batches |-> <<Head(stream).batch>> \o rest.batches]

RECURSIVE TryCollect(_)
TryCollect(stream) ==
    IF stream = <<>> THEN [ok |-> TRUE, batches |-> <<>>]
    ELSE IF ~Head(stream).ok THEN [ok |-> FALSE, batches |-> <<>>]
    ELSE LET rest == TryCollect(Tail(stream))
         IN  IF rest.ok
             THEN [ok |-> TRUE, batches |-> <<Head(stream).batch>> \o rest.batches]
             ELSE [ok |-> FALSE, batches |-> <<>>]

RECURSIVE Flatten(_)
Flatten(seqs) == IF seqs = <<>> THEN <<>> ELSE Head(seqs) \o Flatten(Tail(seqs))

RowsOfBatches(batches) == Flatten([i \in 1..Len(batches) |-> batches[i].rows])

(***************************************************************************)
(* enum State { Lazy(upstream), Loaded(MemTable) }.  A MemTable is its     *)
(* schema and its batches per partition; "by" names the execute call that  *)
(* built it.                                                               *)
(***************************************************************************)
NoTable == [schema |-> <<>>, batches |-> <<>>, by |-> 0]
Lazy == [tag |-> "Lazy", mem |-> NoTable]
Loaded(mem) == [tag |-> "Loaded", mem |-> mem]

NoPlan == [kind |-> "none", proj |-> NoProjection, bs |-> 0, filters |-> <<>>,
           schema |-> <<>>, data |-> <<>>]
NoTask == [st |-> "none", batches |-> <<>>]
NoArgs == [proj |-> NoProjection, bs |-> 0, filters |-> <<>>]

VARIABLES
    state,          \* the ArcSwap<State> cell shared by the wrapper and its plans
    upVer,          \* version of the upstream table's contents
    upstreamScans,  \* number of scan calls the upstream provider has received
    pc,             \* per caller: where it is
    plan,           \* per caller: the ExecutionPlan its scan returned
    tasks,          \* per caller: the drain tasks it spawned, per partition
    awaited,        \* per caller: number of tasks joined (length of data)
    drains,         \* per caller: upstream scans made by its execute
    upArgs,         \* per caller: the arguments of its upstream scan
    result,         \* per caller: the batches of the stream execute returned
    served,         \* per caller: the table the returned stream was read from
    everLoaded,     \* some load of the cell has returned Loaded
    lazyAfterLoaded,\* a load returned Lazy after some load had returned Loaded
    overlapped      \* a scan or execute began while an execute was in flight

lazyVars == <<state, upVer, upstreamScans, pc, plan, tasks, awaited, drains,
              upArgs, result, served, everLoaded, lazyAfterLoaded, overlapped>>

VARIABLES
    streamSt,       \* "unopened", "open" (MongoExec::execute returned the stream) or "openfailed"
    batchSize,      \* MongoStream.batch_size
    cursorDone,     \* the done flag of the Fuse around the cursor
    yielded,        \* the documents the cursor has yielded so far, in order
    emitted,        \* the items poll_next has returned so far, in order
    lastPoll,       \* what the last poll_next returned
    lastBuffered,   \* how many documents the last poll_next held in its buffer
    pollCount,      \* number of poll_next calls
    innerPolls,     \* number of polls of the cursor inside the Fuse
    innerEnded,     \* the cursor has returned None
    endReturned     \* poll_next has returned None

streamVars == <<streamSt, batchSize, cursorDone, yielded, emitted, lastPoll,
                lastBuffered, pollCount, innerPolls, innerEnded, endReturned>>

\* MongoDbCollection::scan, MongoExec::execute's wire projection, and a scan of
\* a LazyMemTable over the same schema
VARIABLES srcScan, wire, wrapScan

sourceVars == <<srcScan, wire, wrapScan>>

\* DocumentBuilder: its fields, the StructBuilder's columns and validity
\* buffer, and the last append_value call
VARIABLES builderSt, fields, columns, validity, lastDoc, lastErrors, lastRet,
          lastLen

builderVars == <<builderSt, fields, columns, validity, lastDoc, lastErrors, lastRet,
                 lastLen>>

\* the last DocumentExt::get_nested call
VARIABLES nestedDoc, nestedKey, nestedRes

nestedVars == <<nestedDoc, nestedKey, nestedRes>>

notLazyVars == <<streamVars, sourceVars, builderVars, nestedVars>>
notStreamVars == <<lazyVars, sourceVars, builderVars, nestedVars>>
notSourceVars == <<lazyVars, streamVars, builderVars, nestedVars>>
notBuilderVars == <<lazyVars, streamVars, sourceVars, nestedVars>>
notNestedVars == <<lazyVars, streamVars, sourceVars, builderVars>>

vars == <<lazyVars, streamVars, sourceVars, builderVars, nestedVars>>

InitLazy ==
    /\ state = Lazy
    /\ upVer = 1
    /\ upstreamScans = 0
    /\ pc = [c \in Calls |-> "idle"]
    /\ plan = [c \in Calls |-> NoPlan]
    /\ tasks = [c \in Calls |-> [p \in Parts |-> NoTask]]
    /\ awaited = [c \in Calls |-> 0]
    /\ drains = [c \in Calls |-> 0]
    /\ upArgs = [c \in Calls |-> NoArgs]
    /\ result = [c \in Calls |-> <<>>]
    /\ served = [c \in Calls |-> NoTable]
    /\ everLoaded = FALSE
    /\ lazyAfterLoaded = FALSE
    /\ overlapped = FALSE

(***************************************************************************)
(* datafusion's MemTable, as LazyExec uses it.                             *)
(***************************************************************************)
\* MemTable::try_new(schema, partitions): every batch must have the schema
MemTableTryNewOk(schema, partitions) ==
    \A p \in 1..Len(partitions) :
        \A i \in 1..Len(partitions[p]) : partitions[p][i].schema = schema

\* MemTable::scan(projection, batch_size, filters) then execute of every
\* partition, flattened in partition order: the stored batches, each with the
\* projected columns (batch_size and filters are not used by MemTable).
MemTableStream(mem, proj) ==
    LET all == Flatten(mem.batches)
    IN  [i \in 1..Len(all) |-> ProjectBatch(proj, all[i])]

(***************************************************************************)
(* Reads of the state cell.                                                *)
(***************************************************************************)
\* match **self.inner.load() { State::Lazy(..) => .., State::Loaded(..) => .. }
ObservedAlwaysLazy(s) == TRUE
ObservedLazy(s) == s.tag = "Lazy"

\* LazyMemTable::schema: v.schema() of whichever variant the cell holds
WrapperSchema(s) == IF ObservedLazy(s) THEN UpstreamSchema ELSE s.mem.schema

Observe(s) ==
    /\ everLoaded' = (everLoaded \/ s.tag = "Loaded")
    /\ lazyAfterLoaded' = (lazyAfterLoaded \/ (everLoaded /\ s.tag = "Lazy"))

InFlight(c) == pc[c] \in {"drain", "swap", "recurse"}

NoteBegin == overlapped' = (overlapped \/ \E d \in Calls : InFlight(d))

\* LazyMemTable::schema and LazyMemTable::statistics: one load of the cell
SchemaCall ==
    /\ UNCHANGED notLazyVars
    /\ Observe(state)
    /\ UNCHANGED <<state, upVer, upstreamScans, pc, plan, tasks, awaited, drains,
                   upArgs, result, served, overlapped>>

StatisticsCall ==
    /\ UNCHANGED notLazyVars
    /\ Observe(state)
    /\ UNCHANGED <<state, upVer, upstreamScans, pc, plan, tasks, awaited, drains,
                   upArgs, result, served, overlapped>>

(***************************************************************************)
(* LazyMemTable::scan                                                      *)
(***************************************************************************)
LazyPlan(args) ==
    [kind |-> "lazy", proj |-> args.proj, bs |-> args.bs, filters |-> args.filters,
     schema |-> ProjectSchema(args.proj, UpstreamSchema), data |-> <<>>]

MemPlan(mem, args) ==
    [kind |-> "mem", proj |-> args.proj, bs |-> args.bs, filters |-> args.filters,
     schema |-> ProjectSchema(args.proj, mem.schema), data |-> mem]

ScanResult(s, args) ==
    IF ObservedLazy(s)
    THEN IF ProjectionInRange(args.proj, UpstreamSchema)
         THEN [ok |-> TRUE, plan |-> LazyPlan(args)]
         ELSE [ok |-> FALSE, plan |-> NoPlan]
    ELSE IF ProjectionInRange(args.proj, s.mem.schema)
         THEN [ok |-> TRUE, plan |-> MemPlan(s.mem, args)]
         ELSE [ok |-> FALSE, plan |-> NoPlan]

Scan(c, args) ==
    /\ UNCHANGED notLazyVars
    /\ pc[c] = "idle"
    /\ Observe(state)
    /\ NoteBegin
    /\ LET r == ScanResult(state, args)
       IN  IF r.ok
           THEN /\ plan' = [plan EXCEPT ![c] = r.plan]
                /\ pc' = [pc EXCEPT ![c] = "planned"]
           ELSE /\ pc' = [pc EXCEPT ![c] = "scanerr"]
                /\ UNCHANGED plan
    /\ UNCHANGED <<state, upVer, upstreamScans, tasks, awaited, drains, upArgs,
                   result, served>>

(***************************************************************************)
(* LazyExec::execute                                                       *)
(***************************************************************************)
\* the arguments of the drain's upstream scan: v.scan(&None, scan_args.1, &[])
DrainArgsOwnProjection(pl) == [proj |-> pl.proj, bs |-> pl.bs, filters |-> <<>>]
DrainArgs(pl) == [proj |-> NoProjection, bs |-> pl.bs, filters |-> <<>>]

\* the arguments of the in-memory scan: v.scan(&scan_args.0, scan_args.1, &scan_args.2)
LoadedScanArgsNoProjection(pl) == [proj |-> NoProjection, bs |-> pl.bs, filters |-> pl.filters]
LoadedScanArgs(pl) == [proj |-> pl.proj, bs |-> pl.bs, filters |-> pl.filters]

\* the load at the head of execute, for the first call and for the recursive one
ExecLoad(c) ==
    /\ UNCHANGED notLazyVars
    /\ pc[c] \in {"planned", "recurse"}
    /\ plan[c].kind = "lazy"
    /\ Observe(state)
    /\ IF pc[c] = "planned" THEN NoteBegin ELSE UNCHANGED overlapped
    /\ IF ObservedLazy(state)
       THEN \E scanOk \in BOOLEAN :
              /\ upstreamScans' = upstreamScans + 1
              /\ drains' = [drains EXCEPT ![c] = @ + 1]
              /\ upArgs' = [upArgs EXCEPT ![c] = DrainArgs(plan[c])]
              /\ IF scanOk
                 THEN /\ tasks' = [tasks EXCEPT ![c] =
                                     [p \in Parts |-> [st |-> "running", batches |-> <<>>]]]
                      /\ awaited' = [awaited EXCEPT ![c] = 0]
                      /\ pc' = [pc EXCEPT ![c] = "drain"]
                 ELSE /\ pc' = [pc EXCEPT ![c] = "failed"]
                      /\ UNCHANGED <<tasks, awaited>>
              /\ UNCHANGED <<result, served>>
       ELSE LET args == LoadedScanArgs(plan[c])
            IN  /\ IF ProjectionInRange(args.proj, state.mem.schema)
                   THEN /\ result' = [result EXCEPT ![c] = MemTableStream(state.mem, args.proj)]
                        /\ served' = [served EXCEPT ![c] = state.mem]
                        /\ pc' = [pc EXCEPT ![c] = "done"]
                   ELSE /\ pc' = [pc EXCEPT ![c] = "failed"]
                        /\ UNCHANGED <<result, served>>
                /\ UNCHANGED <<upstreamScans, drains, upArgs, tasks, awaited>>
    /\ UNCHANGED <<state, upVer, plan>>

\* a spawned drain task: exec.execute(part_i).await?, then try_collect
DrainTask(c, p) ==
    /\ UNCHANGED notLazyVars
    /\ tasks[c][p].st = "running"
    /\ \E opened \in BOOLEAN :
         IF opened
         THEN \E s \in UpstreamStreams(upVer, p, upArgs[c]) :
                LET r == TryCollect(s)
                IN  tasks' = [tasks EXCEPT ![c][p] =
                                [st |-> IF r.ok THEN "ok" ELSE "err", batches |-> r.batches]]
         ELSE tasks' = [tasks EXCEPT ![c][p] = [st |-> "err", batches |-> <<>>]]
    /\ UNCHANGED <<state, upVer, upstreamScans, pc, plan, awaited, drains, upArgs,
                   result, served, everLoaded, lazyAfterLoaded, overlapped>>

\* AwaitTask, but a failed task ends the drain by storing what was joined so
\* far as the table
AwaitTaskCachesFailure(c) ==
    /\ UNCHANGED notLazyVars
    /\ pc[c] = "drain"
    /\ awaited[c] < NParts
    /\ tasks[c][awaited[c] + 1].st \in {"ok", "err"}
    /\ IF tasks[c][awaited[c] + 1].st = "ok"
       THEN /\ awaited' = [awaited EXCEPT ![c] = @ + 1]
            /\ pc' = [pc EXCEPT ![c] = IF awaited[c] + 1 = NParts THEN "swap" ELSE "drain"]
            /\ UNCHANGED state
       ELSE /\ pc' = [pc EXCEPT ![c] = "failed"]
            /\ state' = Loaded([schema |-> UpstreamSchema,
                                batches |-> [p \in 1..awaited[c] |-> tasks[c][p].batches],
                                by |-> c])
            /\ UNCHANGED awaited
    /\ UNCHANGED <<upVer, upstreamScans, plan, tasks, drains, upArgs,
                   result, served, everLoaded, lazyAfterLoaded, overlapped>>

\* for task in tasks { let result = task.await.expect(..)?; data.push(result); }
AwaitTask(c) ==
    /\ UNCHANGED notLazyVars
    /\ pc[c] = "drain"
    /\ awaited[c] < NParts
    /\ tasks[c][awaited[c] + 1].st \in {"ok", "err"}
    /\ IF tasks[c][awaited[c] + 1].st = "ok"
       THEN /\ awaited' = [awaited EXCEPT ![c] = @ + 1]
            /\ pc' = [pc EXCEPT ![c] = IF awaited[c] + 1 = NParts THEN "swap" ELSE "drain"]
       ELSE /\ pc' = [pc EXCEPT ![c] = "failed"]
            /\ UNCHANGED awaited
    /\ UNCHANGED <<state, upVer, upstreamScans, plan, tasks, drains, upArgs,
                   result, served, everLoaded, lazyAfterLoaded, overlapped>>

\* the data joined so far, in task order
JoinedData(c) == [p \in 1..awaited[c] |-> tasks[c][p].batches]

\* the value the swap stores
SwapValueLazy(mem) == Lazy
\* the table stored with an empty schema instead of the upstream's
SwapValueEmptySchema(mem) == Loaded([mem EXCEPT !.schema = <<>>])
SwapValue(mem) == Loaded(mem)

\* Swap, but a failed try_new stores Lazy back into the cell
SwapResetOnFailure(c) ==
    /\ UNCHANGED notLazyVars
    /\ pc[c] = "swap"
    /\ IF MemTableTryNewOk(UpstreamSchema, JoinedData(c))
       THEN /\ state' = SwapValue([schema |-> UpstreamSchema,
                                   batches |-> JoinedData(c), by |-> c])
            /\ pc' = [pc EXCEPT ![c] = "recurse"]
       ELSE /\ pc' = [pc EXCEPT ![c] = "failed"]
            /\ state' = Lazy
    /\ UNCHANGED <<upVer, upstreamScans, plan, tasks, awaited, drains, upArgs,
                   result, served, everLoaded, lazyAfterLoaded, overlapped>>

\* let mem = MemTable::try_new(v.schema().clone(), data)?;
\* self.parent.swap(Arc::new(State::Loaded(mem)));
Swap(c) ==
    /\ UNCHANGED notLazyVars
    /\ pc[c] = "swap"
    /\ IF MemTableTryNewOk(UpstreamSchema, JoinedData(c))
       THEN /\ state' = SwapValue([schema |-> UpstreamSchema,
                                   batches |-> JoinedData(c), by |-> c])
            /\ pc' = [pc EXCEPT ![c] = "recurse"]
       ELSE /\ pc' = [pc EXCEPT ![c] = "failed"]
            /\ UNCHANGED state
    /\ UNCHANGED <<upVer, upstreamScans, plan, tasks, awaited, drains, upArgs,
                   result, served, everLoaded, lazyAfterLoaded, overlapped>>

\* execute of the plan MemTable::scan returned (the wrapper was Loaded at scan)
ExecMem(c) ==
    /\ UNCHANGED notLazyVars
    /\ pc[c] = "planned"
    /\ plan[c].kind = "mem"
    /\ NoteBegin
    /\ result' = [result EXCEPT ![c] = MemTableStream(plan[c].data, plan[c].proj)]
    /\ served' = [served EXCEPT ![c] = plan[c].data]
    /\ pc' = [pc EXCEPT ![c] = "done"]
    /\ UNCHANGED <<state, upVer, upstreamScans, plan, tasks, awaited, drains,
                   upArgs, everLoaded, lazyAfterLoaded>>

\* the upstream collection changes
UpstreamChange ==
    /\ UNCHANGED notLazyVars
    /\ upVer < MaxVersion
    /\ upVer' = upVer + 1
    /\ UNCHANGED <<state, upstreamScans, pc, plan, tasks, awaited, drains, upArgs,
                   result, served, everLoaded, lazyAfterLoaded, overlapped>>

(***************************************************************************)
(* MongoStream: the record-batch stream over a cursor.                     *)
(***************************************************************************)
\* batch sizes a stream is opened with are 1..MaxBatchSize
MaxBatchSize == 2
\* the cursor yields at most MaxDocs documents in all
MaxDocs == 4
\* poll_next is called at most MaxPolls times
MaxPolls == 4

\* A document is its position in the cursor's output and whether
\* DocumentBuilder::append_value accepts it under the stream's schema.
Doc(id, clean) == [id |-> id, clean |-> clean]

\* results of one poll of the cursor: Ready(Some(Ok(doc))), Ready(Some(Err)),
\* Ready(None), Pending
DocEvent(d) == [t |-> "Doc", doc |-> d]
ErrEvent == [t |-> "Err", doc |-> Doc(0, TRUE)]
EndEvent == [t |-> "End", doc |-> Doc(0, TRUE)]
PendingEvent == [t |-> "Pending", doc |-> Doc(0, TRUE)]

\* what the cursor can answer to the polls of one poll_next: up to n more
\* documents, then Pending, an error or the end
RECURSIVE DocRuns(_, _)
DocRuns(from, n) ==
    IF n = 0 THEN { <<>> }
    ELSE { <<>> } \cup
         { <<DocEvent(Doc(from, cl))>> \o rest :
             cl \in BOOLEAN, rest \in DocRuns(from + 1, n - 1) }

CursorRuns(from, n) ==
    { run \o <<last>> : run \in DocRuns(from, n),
                        last \in {PendingEvent, ErrEvent, EndEvent} }

\* items of the stream: Ok(RecordBatch) or Err(ArrowError)
BatchItem(rows) == [ok |-> TRUE, rows |-> rows, err |-> "none"]
ErrorItem(kind) == [ok |-> FALSE, rows |-> <<>>, err |-> kind]

\* DocumentsReader::into_record_batch: append the documents in order; the
\* first document append_value rejects ends it with that error
RECURSIVE AppendAll(_, _)
AppendAll(documents, rows) ==
    IF documents = <<>> THEN BatchItem(rows)
    ELSE IF ~Head(documents).clean THEN ErrorItem("row")
    ELSE AppendAll(Tail(documents), Append(rows, Head(documents).id))

IntoRecordBatch(documents) == AppendAll(documents, <<>>)

\* what poll_next returns: Poll::Pending, Poll::Ready(Some(item)), Poll::Ready(None)
PollPending(n, k) == [ret |-> "Pending", item |-> ErrorItem("none"), buffered |-> n, polls |-> k]
PollItem(it, n, k) == [ret |-> "Item", item |-> it, buffered |-> n, polls |-> k]
PollEnd(n, k) == [ret |-> "End", item |-> ErrorItem("none"), buffered |-> n, polls |-> k]

\* the arm  Poll::Pending => break Poll::Ready(Some(..into_record_batch()))
OnPendingDropBuffer(documents, k) == PollPending(Len(documents), k)
OnPending(documents, k) == PollItem(IntoRecordBatch(documents), Len(documents), k)

\* the loop of poll_next over the cursor's answers, k polls of the cursor so far
RECURSIVE PollLoop(_, _, _)
PollLoop(documents, events, k) ==
    LET e == Head(events)
    IN  CASE e.t = "Pending" /\ documents = <<>> -> PollPending(0, k + 1)
          [] e.t = "Pending" /\ documents # <<>> -> OnPending(documents, k + 1)
          [] e.t = "Doc" -> PollLoop(Append(documents, e.doc), Tail(events), k + 1)
          [] e.t = "Err" -> PollItem(ErrorItem("driver"), Len(documents), k + 1)
          [] e.t = "End" /\ documents = <<>> -> PollEnd(0, k + 1)
          [] e.t = "End" /\ documents # <<>> ->
                PollItem(IntoRecordBatch(documents), Len(documents), k + 1)

\* Fuse::is_done
IsDoneNever(done) == FALSE
IsDone(done) == done

RunDocs(events) ==
    LET docEvents == SelectSeq(events, LAMBDA e : e.t = "Doc")
    IN  [i \in 1..Len(docEvents) |-> docEvents[i].doc]

InitStream ==
    /\ streamSt = "unopened"
    /\ batchSize = 0
    /\ cursorDone = FALSE
    /\ yielded = <<>>
    /\ emitted = <<>>
    /\ lastPoll = "none"
    /\ lastBuffered = 0
    /\ pollCount = 0
    /\ innerPolls = 0
    /\ innerEnded = FALSE
    /\ endReturned = FALSE

\* MongoExec::execute: find with the batch size, then the stream over the
\* fused cursor; a failed find is an execution error and no stream
OpenStream(bs, found) ==
    /\ streamSt = "unopened"
    /\ streamSt' = IF found THEN "open" ELSE "openfailed"
    /\ batchSize' = IF found THEN bs ELSE batchSize
    /\ UNCHANGED <<cursorDone, yielded, emitted, lastPoll, lastBuffered, pollCount,
                   innerPolls, innerEnded, endReturned>>
    /\ UNCHANGED notStreamVars

\* MongoStream::poll_next.  The lock of the cursor's mutex is free at every
\* poll: poll_next has the stream exclusively (Pin<&mut Self>) and drops the
\* guard when it returns.
PollNext(events) ==
    /\ streamSt = "open"
    /\ pollCount < MaxPolls
    /\ pollCount' = pollCount + 1
    /\ IF IsDone(cursorDone)
       THEN /\ lastPoll' = "End"
            /\ endReturned' = TRUE
            /\ lastBuffered' = 0
            /\ UNCHANGED <<cursorDone, yielded, emitted, innerPolls, innerEnded>>
       ELSE LET r == PollLoop(<<>>, events, 0)
                last == events[Len(events)]
            IN  /\ yielded' = yielded \o RunDocs(events)
                /\ innerPolls' = innerPolls + r.polls
                /\ innerEnded' = (innerEnded \/ last.t = "End")
                /\ cursorDone' = (cursorDone \/ last.t = "End")
                /\ lastBuffered' = r.buffered
                /\ emitted' = IF r.ret = "Item" THEN Append(emitted, r.item) ELSE emitted
                /\ lastPoll' = IF r.ret = "Item"
                               THEN (IF r.item.ok THEN "Batch" ELSE "Error")
                               ELSE r.ret
                /\ endReturned' = (endReturned \/ r.ret = "End")
    /\ UNCHANGED <<streamSt, batchSize>>
    /\ UNCHANGED notStreamVars

(***************************************************************************)
(* The source provider: MongoDbCollection over a MappedSchema.             *)
(***************************************************************************)
\* MappedField: an arrow Field (name, data_type, nullable) and the source path
MappedField(name, data_type, nullable, mongodb_field) ==
    [name |-> name, data_type |-> data_type, nullable |-> nullable,
     mongodb_field |-> mongodb_field]

\* MappedSchema::new_with_metadata(mongodb_collection, fields, metadata)
NewWithMetadata(mongodb_collection, flds, metadata) ==
    [mongodb_collection |-> mongodb_collection, fields |-> flds,
     metadata |-> metadata]

\* MappedSchema::new: the metadata is an empty map (a set of key-value pairs)
MappedSchemaNew(mongodb_collection, flds) ==
    NewWithMetadata(mongodb_collection, flds, {})

\* the schema the provider is built with; its arrow fields are UpstreamSchema
SourceSchema ==
    MappedSchemaNew("people",
        << MappedField("a", "Utf8", FALSE, "_id"),
           MappedField("b", "Utf8", TRUE, "addr.city") >>)

\* impl From<MappedSchema> for Schema: the arrow fields and the metadata
ArrowSchema(ms) ==
    [fields |-> [i \in 1..Len(ms.fields) |->
                    [name |-> ms.fields[i].name,
                     data_type |-> ms.fields[i].data_type,
                     nullable |-> ms.fields[i].nullable]],
     metadata |-> ms.metadata]

\* the projections and batch sizes callers pass to scan
SourceProjections ==
    { NoProjection, SomeProjection(<<>>), SomeProjection(<<1>>),
      SomeProjection(<<1, 0>>), SomeProjection(<<0, 0>>), SomeProjection(<<2>>),
      SomeProjection(<<0, 2>>) }

SourceScanArgs ==
    { [proj |-> pr, bs |-> bs, filters |-> <<>>] :
        pr \in SourceProjections, bs \in 1..2 }

\* if *i < self.mapped_schema.fields().len() for every index of the projection
MappedProjectionInRange(proj, ms) ==
    \A i \in 1..Len(proj.cols) : proj.cols[i] < Len(ms.fields)

\* the projected columns in schema order, whatever order the caller asked for
ProjectFieldsSchemaOrder(proj, flds) ==
    IF proj.some
    THEN SelectSeq(flds, LAMBDA f :
             \E i \in 1..Len(proj.cols) : flds[proj.cols[i] + 1] = f)
    ELSE flds

\* projection.iter().map(|i| self.mapped_schema.field(*i).clone()).collect()
ProjectFields(proj, flds) ==
    IF proj.some
    THEN [i \in 1..Len(proj.cols) |-> flds[proj.cols[i] + 1]]
    ELSE flds

NoMongoExec ==
    [mapped_schema |-> MappedSchemaNew("", <<>>),
     schema |-> ArrowSchema(MappedSchemaNew("", <<>>)), batch_size |-> 0]

\* MongoDbCollection::scan: the MongoExec, or the planning error
MongoScan(ms, args) ==
    IF MappedProjectionInRange(args.proj, ms)
    THEN LET projected ==
                 IF args.proj.some
                 THEN NewWithMetadata(ms.mongodb_collection,
                                      ProjectFields(args.proj, ms.fields),
                                      ms.metadata)
                 ELSE ms
         IN  [ok |-> TRUE,
              plan |-> [mapped_schema |-> projected,
                        schema |-> ArrowSchema(projected),
                        batch_size |-> args.bs]]
    ELSE [ok |-> FALSE, plan |-> NoMongoExec]

\* a bson Document as a function from keys to values
EmptyDocument == [k \in {} |-> 0]

\* Document::insert: the key's value is replaced
DocInsert(doc, k, v) ==
    [x \in DOMAIN doc \cup {k} |-> IF x = k THEN v ELSE doc[x]]

\* Document::entry(k).or_insert(v): the key's value is kept when it has one
OrInsertOverwrites(doc, k, v) == DocInsert(doc, k, v)
OrInsert(doc, k, v) == IF k \in DOMAIN doc THEN doc ELSE DocInsert(doc, k, v)

\* iter().map(|f| (f.mongodb_field().to_owned(), Bson::Int32(1))).collect()
RECURSIVE CollectOnes(_)
CollectOnes(flds) ==
    IF flds = <<>> THEN EmptyDocument
    ELSE DocInsert(CollectOnes(SubSeq(flds, 1, Len(flds) - 1)),
                   flds[Len(flds)].mongodb_field, 1)

\* mongodb_projection(schema)
MongodbProjection(ms) == OrInsert(CollectOnes(ms.fields), "_id", 0)

\* the cell of a LazyMemTable over the provider: Lazy, or Loaded with a table
\* of the upstream's schema
WrapperStates ==
    { Lazy,
      Loaded([schema |-> UpstreamSchema,
              batches |-> << <<Batch(UpstreamSchema, UpstreamRows(1, 1))>> >>,
              by |-> 1]) }

InitSource ==
    /\ srcScan = [called |-> FALSE, args |-> NoArgs, ok |-> FALSE,
                  plan |-> NoMongoExec]
    /\ wire = [made |-> FALSE, of |-> <<>>, doc |-> EmptyDocument, batch_size |-> 0]
    /\ wrapScan = [called |-> FALSE, args |-> NoArgs, ok |-> FALSE,
                   plan |-> NoPlan, on |-> Lazy]

\* MongoDbCollection::scan(projection, batch_size, filters)
SourceScan(args) ==
    /\ LET r == MongoScan(SourceSchema, args)
       IN  srcScan' = [called |-> TRUE, args |-> args, ok |-> r.ok, plan |-> r.plan]
    /\ UNCHANGED <<wire, wrapScan>>
    /\ UNCHANGED notSourceVars

\* MongoExec::execute: the find options sent to the driver
SourceExecute ==
    /\ srcScan.called
    /\ srcScan.ok
    /\ wire' = [made |-> TRUE, of |-> srcScan.plan.mapped_schema.fields,
                doc |-> MongodbProjection(srcScan.plan.mapped_schema),
                batch_size |-> srcScan.plan.batch_size]
    /\ UNCHANGED <<srcScan, wrapScan>>
    /\ UNCHANGED notSourceVars

\* LazyMemTable::scan(projection, batch_size, filters) with the cell in state s
WrapperScan(s, args) ==
    /\ LET r == ScanResult(s, args)
       IN  wrapScan' = [called |-> TRUE, args |-> args, ok |-> r.ok,
                        plan |-> r.plan, on |-> s]
    /\ UNCHANGED <<srcScan, wire>>
    /\ UNCHANGED notSourceVars

(***************************************************************************)
(* BSON documents and the nested accessor of bson_ext.  A key is the       *)
(* sequence of its characters, a document a function from keys to values,  *)
(* a value a tagged record.                                                *)
(***************************************************************************)
BNull == [t |-> "Null", v |-> 0]
BInt32(n) == [t |-> "Int32", v |-> n]
BInt64(n) == [t |-> "Int64", v |-> n]
BString(str) == [t |-> "String", v |-> str]
BDocument(d) == [t |-> "Document", v |-> d]

\* a key that may be missing from a document
Absent == [t |-> "Absent", v |-> 0]
Entry(k, val) == IF val = Absent THEN EmptyDocument ELSE (k :> val)

\* key.split("."): the segments between the dots, one segment for a key
\* without a dot (the empty key included)
RECURSIVE Split(_)
Split(key) ==
    IF \E i \in 1..Len(key) : key[i] = "."
    THEN LET i == CHOOSE j \in 1..Len(key) :
                     /\ key[j] = "."
                     /\ \A h \in 1..(j - 1) : key[h] # "."
         IN  <<SubSeq(key, 1, i - 1)>> \o Split(SubSeq(key, i + 1, Len(key)))
    ELSE <<key>>

\* Result<&Bson, ValueAccessError>
AccessOk(val) == [kind |-> "Ok", v |-> val]
NotPresent == [kind |-> "NotPresent", v |-> BNull]
UnexpectedType == [kind |-> "UnexpectedType", v |-> BNull]

\* Document::get_document(key): the sub-document, or why there is none
GetDocumentNotPresent(document, current) ==
    IF current \in DOMAIN document /\ document[current].t = "Document"
    THEN AccessOk(document[current])
    ELSE NotPresent

GetDocument(document, current) ==
    IF current \notin DOMAIN document THEN NotPresent
    ELSE IF document[current].t = "Document" THEN AccessOk(document[current])
    ELSE UnexpectedType

\* fn get_nested(document, key): key is the iterator over the segments left
RECURSIVE GetNested(_, _)
GetNested(document, key) ==
    LET current == IF key = <<>> THEN <<>> ELSE Head(key)
        rest == IF key = <<>> THEN <<>> ELSE Tail(key)
    IN  IF rest # <<>>
        THEN LET sub == GetDocument(document, current)
             IN  IF sub.kind = "Ok" THEN GetNested(sub.v.v, rest) ELSE sub
        ELSE IF current \in DOMAIN document
             THEN AccessOk(document[current])
             ELSE NotPresent

\* DocumentExt::get_nested(&self, key)
DocGetNested(document, key) == GetNested(document, Split(key))

\* bounds of the accessor's inputs
MaxKeyLen == 3

KeyChars == {"a", "b", "."}

RECURSIVE KeysOfLen(_)
KeysOfLen(n) ==
    IF n = 0 THEN { <<>> }
    ELSE { Append(k, ch) : k \in KeysOfLen(n - 1), ch \in KeyChars }

NestedKeys == UNION { KeysOfLen(n) : n \in 0..MaxKeyLen }

NestedDocs ==
    { EmptyDocument,
      <<"a">> :> BInt32(1),
      <<"a">> :> BNull,
      <<"a">> :> BDocument(<<"b">> :> BInt32(2)),
      <<"a">> :> BDocument(<<"b">> :> BNull),
      (<<"a">> :> BDocument(EmptyDocument)) @@ (<<"b">> :> BInt32(3)),
      <<"a">> :> BDocument(<<>> :> BInt32(4)),
      <<>> :> BInt32(5),
      <<>> :> BDocument(<<>> :> BInt32(6)),
      <<"a", "b">> :> BInt32(7) }

InitNested ==
    /\ nestedDoc = EmptyDocument
    /\ nestedKey = <<>>
    /\ nestedRes = [kind |-> "none", v |-> BNull]

\* doc.get_nested(key)
GetNestedCall(doc, key) ==
    /\ nestedDoc' = doc
    /\ nestedKey' = key
    /\ nestedRes' = DocGetNested(doc, key)
    /\ UNCHANGED notNestedVars

(***************************************************************************)
(* DocumentBuilder: one column builder per field inside a StructBuilder.   *)
(* A cell is null or holds a value.                                        *)
(***************************************************************************)
MaxRows == 2

NullCell == [null |-> TRUE, v |-> 0]
ValueCell(val) == [null |-> FALSE, v |-> val]

\* the data types append_value has an arm for
SupportedTypes ==
    {"Utf8", "LargeUtf8", "Int32", "Int64", "Float64", "Boolean",
     "Timestamp(Second)", "Timestamp(Millisecond)", "Timestamp(Microsecond)",
     "Timestamp(Nanosecond)", "Date32", "Date64", "Time32(Second)",
     "Time32(Millisecond)", "Time64(Microsecond)", "Time64(Nanosecond)",
     "Binary", "LargeBinary"}

\* the patterns of the arm of a data type: does the arm take this value
Accepts(data_type, val) ==
    CASE data_type \in {"Utf8", "LargeUtf8"} -> val.t \in {"ObjectId", "String", "Symbol"}
      [] data_type = "Int32" -> val.t = "Int32"
      [] data_type = "Int64" -> val.t = "Int64"
      [] data_type = "Float64" -> val.t = "Double"
      [] data_type = "Boolean" -> val.t = "Boolean"
      [] data_type \in {"Binary", "LargeBinary"} ->
            /\ val.t = "Binary"
            /\ val.v.subtype \in {"Generic", "BinaryOld", "UserDefined"}
      [] OTHER -> val.t = "DateTime"

(***************************************************************************)
(* Arithmetic of the date and time arms.  A DateTime is its seconds since  *)
(* the epoch (negative before 1970) and its nanoseconds within the second. *)
(* Values that do not fit the checker's integers are sequences of base-256 *)
(* digits, least significant first, without leading zero digits: a u32 has *)
(* at most 4 digits.                                                       *)
(***************************************************************************)
SecsPerDay == 86400
MillisPerSec == 1000
MicrosPerSec == 1000000
NanosPerSec == 1000000000
NanosPerMicro == 1000
NanosPerMilli == 1000000

BDateTime(secs, nanos) == [t |-> "DateTime", v |-> [secs |-> secs, nanos |-> nanos]]

RECURSIVE ToLimbs(_)
ToLimbs(n) == IF n = 0 THEN <<>> ELSE <<n % 256>> \o ToLimbs(n \div 256)

RECURSIVE Trim(_)
Trim(x) ==
    IF x # <<>> /\ x[Len(x)] = 0 THEN Trim(SubSeq(x, 1, Len(x) - 1)) ELSE x

RECURSIVE Carry(_, _)
Carry(raw, c) ==
    IF raw = <<>> THEN ToLimbs(c)
    ELSE <<(Head(raw) + c) % 256>> \o Carry(Tail(raw), (Head(raw) + c) \div 256)

LimbAt(x, k) == IF k <= Len(x) THEN x[k] ELSE 0

\* the exact sum and product of two numbers
AddLimbs(a, b) ==
    LET n == IF Len(a) >= Len(b) THEN Len(a) ELSE Len(b)
    IN  Trim(Carry([k \in 1..n |-> LimbAt(a, k) + LimbAt(b, k)], 0))

RECURSIVE SumProducts(_, _, _, _)
SumProducts(a, b, k, i) ==
    IF i = 0 THEN 0
    ELSE SumProducts(a, b, k, i - 1)
         + (IF k + 1 - i >= 1 /\ k + 1 - i <= Len(b) THEN a[i] * b[k + 1 - i] ELSE 0)

MulLimbs(a, b) ==
    IF a = <<>> \/ b = <<>> THEN <<>>
    ELSE Trim(Carry([k \in 1..(Len(a) + Len(b) - 1) |->
                        SumProducts(a, b, k, Len(a))], 0))

\* the low 32 bits of a number
Wrap32(x) == IF Len(x) > 4 THEN Trim(SubSeq(x, 1, 4)) ELSE x

\* u32 * u32 and u32 + u32: the wrapped result, and whether the exact result
\* does not fit a u32 (a panic when the build checks overflow, the wrapped
\* result when it does not)
U32Mul(a, b) == [v |-> Wrap32(MulLimbs(a, b)), overflow |-> Len(MulLimbs(a, b)) > 4]
U32Add(a, b) == [v |-> Wrap32(AddLimbs(a, b)), overflow |-> Len(AddLimbs(a, b)) > 4]

\* i64 / i64 of Rust: the quotient rounded towards zero
FloorDiv(a, b) == a \div b
TruncDiv(a, b) == IF a >= 0 THEN a \div b ELSE -((-a) \div b)

\* DateTime::timestamp, timestamp_millis, timestamp_nanos
Timestamp(dt) == dt.secs
TimestampMillis(dt) == dt.secs * MillisPerSec + dt.nanos \div NanosPerMilli
TimestampNanos(dt) == dt.secs * NanosPerSec + dt.nanos

\* val.time().num_seconds_from_midnight() and .nanosecond(), both u32
NumSecondsFromMidnight(dt) == dt.secs % SecsPerDay
Nanosecond(dt) == dt.nanos

\* (t.num_seconds_from_midnight() * per_sec) + sub, in u32
SinceMidnight(dt, perSec, sub) ==
    LET prod == U32Mul(ToLimbs(NumSecondsFromMidnight(dt)), ToLimbs(perSec))
        sum == U32Add(prod.v, ToLimbs(sub))
    IN  [v |-> sum.v, overflow |-> prod.overflow \/ sum.overflow]

Time64Arm(data_type, dt) ==
    IF data_type = "Time64(Microsecond)"
    THEN SinceMidnight(dt, MicrosPerSec, Nanosecond(dt) \div NanosPerMicro)
    ELSE SinceMidnight(dt, NanosPerSec, Nanosecond(dt))

\* the expressions of the arms that take a DateTime
DateTimeCell(data_type, dt) ==
    CASE data_type = "Timestamp(Second)" -> Timestamp(dt)
      [] data_type = "Timestamp(Millisecond)" -> TimestampMillis(dt)
      [] data_type = "Timestamp(Microsecond)" -> TruncDiv(TimestampNanos(dt), NanosPerMicro)
      [] data_type = "Timestamp(Nanosecond)" -> TimestampNanos(dt)
      [] data_type = "Date32" -> TruncDiv(Timestamp(dt), SecsPerDay)
      [] data_type = "Date64" -> TruncDiv(Timestamp(dt), SecsPerDay) * MillisPerSec
      [] data_type = "Time32(Second)" -> NumSecondsFromMidnight(dt)
      [] data_type = "Time32(Millisecond)" ->
            NumSecondsFromMidnight(dt) * MillisPerSec + Nanosecond(dt) \div NanosPerMilli
      [] OTHER -> Time64Arm(data_type, dt).v

\* the expression of the arm: the value appended for an accepted value
Converted(data_type, val) ==
    CASE val.t = "ObjectId" -> <<"hex", val.v>>
      [] val.t = "Binary" -> val.v.bytes
      [] val.t = "DateTime" -> DateTimeCell(data_type, val.v)
      [] OTHER -> val.v

\* does the u32 arithmetic of the field's arm overflow for this document
ArmOverflows(f, doc) ==
    LET r == DocGetNested(doc, f.mongodb_field)
    IN  /\ f.data_type \in {"Time64(Microsecond)", "Time64(Nanosecond)"}
        /\ r.kind = "Ok"
        /\ r.v.t = "DateTime"
        /\ Time64Arm(f.data_type, r.v.v).overflow

\* the guard of the null arm
NullableGuardAlways(f) == TRUE
NullableGuardNever(f) == FALSE
NullableGuard(f) == f.nullable

\* append_value!: the cell appended for field f and the error pushed, if any
AppendValueMacro(f, doc) ==
    LET r == DocGetNested(doc, f.mongodb_field)
    IN  IF r.kind = "Ok" /\ Accepts(f.data_type, r.v)
        THEN [cell |-> ValueCell(Converted(f.data_type, r.v)), err |-> "none"]
        ELSE IF /\ (r.kind = "Ok" /\ r.v.t = "Null") \/ r.kind = "NotPresent"
                /\ NullableGuard(f)
        THEN [cell |-> NullCell, err |-> "none"]
        ELSE IF r.kind = "Ok"
        THEN [cell |-> NullCell, err |-> "UnexpectedType"]
        ELSE [cell |-> NullCell, err |-> r.kind]

\* what the arm does to its column builder
AppendUnlessError(col, out) ==
    IF out.err = "none" THEN Append(col, out.cell) ELSE col
AppendToColumn(col, out) == Append(col, out.cell)

\* errors.push(..) for the fields in order: an error is the ValueAccessError
\* kind; col, the index of the field that pushed it, is not part of the error
\* and is kept to relate errors to columns
RECURSIVE PushedErrors(_, _, _)
PushedErrors(flds, doc, n) ==
    IF n = 0 THEN <<>>
    ELSE LET out == AppendValueMacro(flds[n], doc)
             before == PushedErrors(flds, doc, n - 1)
         IN  IF out.err = "none" THEN before
             ELSE Append(before, [col |-> n, kind |-> out.err])

\* let success = errors.is_empty();
SuccessAlways(errors) == TRUE
Success(errors) == errors = <<>>

\* the schemas builders are made for: a column read from "x" and one read
\* from "a.b", and one schema with a Float32 column
BuilderColumns(name, path) ==
    { MappedField(name, ty, nullable, path) :
        ty \in {"Int32", "Utf8"}, nullable \in BOOLEAN }

BuilderSchemas ==
    { <<c1, c2>> : c1 \in BuilderColumns("x", <<"x">>),
                   c2 \in BuilderColumns("y", <<"a", ".", "b">>) }
    \cup { << MappedField("x", "Int32", TRUE, <<"x">>),
              MappedField("z", "Float32", TRUE, <<"a">>) >> }
    \cup { << MappedField("d", "Date32", TRUE, <<"x">>),
              MappedField("t", ty, TRUE, <<"x">>) >> :
             ty \in {"Time64(Microsecond)", "Time64(Nanosecond)"} }

\* instants around the epoch and around the seconds of the day at which
\* sec * 1_000_000 and sec * 1_000_000_000 pass 2^32
DateTimeSecs == {-86401, -86400, -1, 0, 4, 5, 4294, 4295, 86399}

DateTimeNanos == {0, 999, 999999999}

BuilderDocs ==
    { Entry(<<"x">>, xv) @@ Entry(<<"a">>, av) :
        xv \in {Absent, BNull, BInt32(1), BString("s")},
        av \in {Absent, BNull, BInt32(2)}
               \cup { BDocument(Entry(<<"b">>, bv)) :
                        bv \in {Absent, BNull, BInt32(5), BString("t")} } }
    \cup { Entry(<<"x">>, BDateTime(secs, nanos)) :
             secs \in DateTimeSecs, nanos \in DateTimeNanos }

NoReturn == [ok |-> TRUE, errors |-> <<>>]

InitBuilder ==
    /\ builderSt = "none"
    /\ fields = <<>>
    /\ columns = <<>>
    /\ validity = <<>>
    /\ lastDoc = EmptyDocument
    /\ lastErrors = <<>>
    /\ lastRet = NoReturn
    /\ lastLen = -1

\* DocumentBuilder::new(schema, capacity): an empty builder per field
NewBuilder(flds) ==
    /\ builderSt = "none"
    /\ builderSt' = "open"
    /\ fields' = flds
    /\ columns' = [i \in 1..Len(flds) |-> <<>>]
    /\ validity' = <<>>
    /\ UNCHANGED <<lastDoc, lastErrors, lastRet, lastLen>>
    /\ UNCHANGED notBuilderVars

\* DocumentBuilder::append_value(doc): the fields in order, each through its
\* arm.  The arm of a data type without one panics, and so does an arm whose
\* u32 arithmetic overflows when the build checks overflow (without the
\* checks it appends the wrapped value); a panic comes after the columns
\* before it were appended to.
AppendValue(doc) ==
    /\ builderSt = "open"
    /\ Len(validity) < MaxRows
    /\ lastDoc' = doc
    /\ lastLen' = Len(validity)
    /\ \E overflowChecks \in BOOLEAN :
       LET Panics(i) ==
               \/ fields[i].data_type \notin SupportedTypes
               \/ overflowChecks /\ ArmOverflows(fields[i], doc)
       IN
       IF \E i \in 1..Len(fields) : Panics(i)
       THEN LET k == CHOOSE i \in 1..Len(fields) :
                         /\ Panics(i)
                         /\ \A h \in 1..(i - 1) : ~Panics(h)
            IN  /\ builderSt' = "panicked"
                /\ columns' = [i \in 1..Len(fields) |->
                                 IF i < k
                                 THEN AppendToColumn(columns[i],
                                                     AppendValueMacro(fields[i], doc))
                                 ELSE columns[i]]
                /\ lastErrors' = PushedErrors(fields, doc, k - 1)
                /\ UNCHANGED <<validity, lastRet>>
       ELSE LET errors == PushedErrors(fields, doc, Len(fields))
                success == Success(errors)
            IN  /\ columns' = [i \in 1..Len(fields) |->
                                 AppendToColumn(columns[i],
                                                AppendValueMacro(fields[i], doc))]
                /\ validity' = Append(validity, success)
                /\ lastErrors' = errors
                /\ lastRet' = [ok |-> success,
                               errors |-> IF success THEN <<>> ELSE errors]
                /\ UNCHANGED builderSt
    /\ UNCHANGED fields
    /\ UNCHANGED notBuilderVars

\* DocumentBuilder::len(): the length of the struct builder
BuilderLen == Len(validity)

Init == InitLazy /\ InitStream /\ InitSource /\ InitBuilder /\ InitNested

Next ==
    \/ SchemaCall
    \/ StatisticsCall
    \/ \E c \in Calls, args \in ScanArgs : Scan(c, args)
    \/ \E c \in Calls : ExecLoad(c)
    \/ \E c \in Calls, p \in Parts : DrainTask(c, p)
    \/ \E c \in Calls : AwaitTask(c)
    \/ \E c \in Calls : Swap(c)
    \/ \E c \in Calls : ExecMem(c)
    \/ UpstreamChange

Spec == Init /\ [][Next]_vars

\* the runtime keeps polling: a spawned drain task runs to its end, and an
\* execute future that can take its next step takes it
Fairness ==
    \A c \in Calls :
        /\ WF_vars(ExecLoad(c))
        /\ WF_vars(AwaitTask(c))
        /\ WF_vars(Swap(c))
        /\ \A p \in Parts : WF_vars(DrainTask(c, p))

SpecFair == Spec /\ Fairness

NextStream ==
    \/ \E bs \in 1..MaxBatchSize, found \in BOOLEAN : OpenStream(bs, found)
    \/ \E events \in CursorRuns(Len(yielded) + 1, MaxDocs - Len(yielded)) :
          PollNext(events)

SpecStream == Init /\ [][NextStream]_vars

NextSource ==
    \/ \E args \in SourceScanArgs : SourceScan(args)
    \/ SourceExecute
    \/ \E s \in WrapperStates, args \in SourceScanArgs : WrapperScan(s, args)

SpecSource == Init /\ [][NextSource]_vars

NextBuilder ==
    \/ \E flds \in BuilderSchemas : NewBuilder(flds)
    \/ \E doc \in BuilderDocs : AppendValue(doc)

SpecBuilder == Init /\ [][NextBuilder]_vars

NextNested == \E doc \in NestedDocs, key \in NestedKeys : GetNestedCall(doc, key)

SpecNested == Init /\ [][NextNested]_vars

(***************************************************************************)
(* Properties of the lazy cache wrapper (checked under Spec).              *)
(***************************************************************************)
RECURSIVE SumDrains(_)
SumDrains(n) == IF n = 0 THEN 0 ELSE drains[n] + SumDrains(n - 1)

LazyDone(c) == pc[c] = "done" /\ plan[c].kind = "lazy"

\* C1, as stated: over any number of concurrent LazyExec.execute calls on one
\* wrapper, the upstream provider's scan/drain is performed at most once.
C1_AtMostOnceInTotal == upstreamScans <= 1

\* C1, amended: every execute call performs at most one upstream scan/drain,
\* and the upstream is scanned only by execute calls, so N concurrent
\* executes perform at most N drains in total (not at most one).
C1_AtMostOncePerExecute ==
    /\ \A c \in Calls : drains[c] <= 1
    /\ upstreamScans = SumDrains(NCalls)

\* two racing executes have each drained the upstream and returned
C1_Witness ==
    \E c, d \in Calls :
        c # d /\ LazyDone(c) /\ LazyDone(d) /\ drains[c] = 1 /\ drains[d] = 1

\* C2: once a load of the cell (by schema, scan, statistics or execute) has
\* returned Loaded no later load returns Lazy, and every write to the cell
\* stores a Loaded value.
C2_Monotonic ==
    /\ [](~lazyAfterLoaded)
    /\ [](everLoaded => state.tag = "Loaded")
    /\ [][state' # state => state'.tag = "Loaded"]_vars

\* after one caller's swap, a caller that holds a LazyExec plan has loaded
\* the cell, found it Loaded and returned without draining
C2_Witness ==
    /\ everLoaded
    /\ \E c, d \in Calls :
         /\ LazyDone(c) /\ drains[c] = 0 /\ served[c].by = d
         /\ pc[d] = "done" /\ drains[d] = 1

\* C3: when every execute completes successfully before the next scan or
\* execute begins, the upstream is scanned exactly once, by the first
\* execute; every later execute (also of a LazyExec plan made while the cell
\* was Lazy) is served from the table in the cell and scans nothing.
C3_SequentialOnce ==
    (~overlapped /\ \A c \in Calls : pc[c] # "failed") =>
        /\ upstreamScans =
             (IF \E c \in Calls : InFlight(c) \/ pc[c] = "done" THEN 1 ELSE 0)
        /\ \A c \in Calls :
             pc[c] = "done" =>
                /\ state.tag = "Loaded"
                /\ served[c] = state.mem
                /\ RowsOfBatches(result[c]) = RowsOfBatches(Flatten(state.mem.batches))

\* a LazyExec plan made while the cell was Lazy was executed after another
\* caller's execute had completed, and did not drain
C3_Witness ==
    /\ ~overlapped
    /\ \A c \in Calls : LazyDone(c)
    /\ \E c \in Calls : drains[c] = 0

\* mem holds, for every partition, all the batches of a successful drain task
CompleteTable(mem) ==
    /\ mem.schema = UpstreamSchema
    /\ Len(mem.batches) = NParts
    /\ \A p \in Parts :
         /\ tasks[mem.by][p].st = "ok"
         /\ mem.batches[p] = tasks[mem.by][p].batches
         /\ \A i \in 1..Len(mem.batches[p]) : mem.batches[p][i].schema = UpstreamSchema
         /\ \E ver \in 1..MaxVersion :
              RowsOfBatches(mem.batches[p]) = UpstreamRows(ver, p)

\* C4: the cell is swapped to Loaded only after every drain task returned
\* successfully, with a table built from all of every partition; a step in
\* which execute returns an error leaves the cell as it was.
C4_SwapOnlyAfterFullDrain ==
    /\ [](state.tag = "Loaded" => CompleteTable(state.mem))
    /\ [](\A c \in Calls : pc[c] = "failed" => state.mem.by # c)
    /\ [][\A c \in Calls : (pc[c] # "failed" /\ pc'[c] = "failed") => state' = state]_vars

\* an execute returned the error of its second drain task (the first task
\* had succeeded) and the cell is still Lazy
C4_Witness ==
    \E c \in Calls :
        /\ pc[c] = "failed" /\ awaited[c] = 1
        /\ tasks[c][1].st = "ok" /\ tasks[c][2].st = "err"
        /\ state = Lazy

\* C5: once N concurrent first executes have all returned, the stream of
\* every caller yields exactly the rows of the table the cell finally holds.
C5_EveryCallerSeesFinalTable ==
    (\A c \in Calls : LazyDone(c) /\ drains[c] = 1) =>
        \A c \in Calls :
            RowsOfBatches(result[c]) = RowsOfBatches(Flatten(state.mem.batches))

\* the columns caller c asked for, in its order
CallerColumns(c) ==
    IF plan[c].proj.some
    THEN [i \in 1..Len(plan[c].proj.cols) |-> UpstreamSchema[plan[c].proj.cols[i] + 1]]
    ELSE UpstreamSchema

\* C6: the drain scans the upstream with no projection, no filters and the
\* caller's batch_size; the stream execute returns has, in every batch,
\* exactly the columns the plan's own projection names, in its order (all
\* columns in schema order without a projection), whoever did the drain.
C6_CallerProjection ==
    \A c \in Calls :
        /\ drains[c] >= 1 =>
              /\ ~upArgs[c].proj.some
              /\ upArgs[c].filters = <<>>
              /\ upArgs[c].bs = plan[c].bs
        /\ LazyDone(c) =>
              /\ Len(result[c]) = Len(Flatten(served[c].batches))
              /\ \A i \in 1..Len(result[c]) :
                    /\ result[c][i].schema = CallerColumns(c)
                    /\ result[c][i].rows = Flatten(served[c].batches)[i].rows

\* a caller with projection [1, 0] got its stream from a table that another
\* caller's execute had drained
C6_Witness ==
    \E c \in Calls :
        /\ LazyDone(c)
        /\ plan[c].proj = SomeProjection(<<1, 0>>)
        /\ served[c].by # c
        /\ result[c] # <<>>
        /\ result[c][1].schema = <<"b", "a">>

(***************************************************************************)
(* Properties of the source stream (checked under SpecStream).             *)
(***************************************************************************)
\* C7: every record batch poll_next emits has at most batch_size rows,
\* whatever the cursor does (Ready(doc), Pending, End in any order): the
\* buffer a batch is built from never holds more than batch_size documents.
C7_BatchWithinBatchSize ==
    /\ \A i \in 1..Len(emitted) : emitted[i].ok => Len(emitted[i].rows) <= batchSize
    /\ lastPoll = "Batch" => lastBuffered <= batchSize

\* C8: after the stream has emitted one error item (a driver error or a row
\* materialization error) every later poll returns End: no item follows an
\* error item, and no poll after it returns Pending.
C8_ErrorTerminates ==
    /\ \A i \in 1..Len(emitted) : ~emitted[i].ok => i = Len(emitted)
    /\ (emitted # <<>> /\ ~emitted[Len(emitted)].ok) => lastPoll \in {"Error", "End"}

\* C9: once poll_next has returned End, or has emitted the final batch
\* because the cursor ended, every later poll returns End and does not poll
\* the cursor.
C9_Fused ==
    [][((endReturned \/ innerEnded) /\ pollCount' # pollCount) =>
          (lastPoll' = "End" /\ innerPolls' = innerPolls /\ emitted' = emitted)]_vars

\* the cursor ended behind a non-empty buffer, the final batch was emitted,
\* and the polls after it returned End
C9_Witness ==
    /\ innerEnded /\ endReturned
    /\ lastPoll = "End"
    /\ emitted # <<>> /\ emitted[Len(emitted)].ok
    /\ pollCount >= 3

\* the rows of the emitted items, in emission order
EmittedRows == Flatten([i \in 1..Len(emitted) |-> emitted[i].rows])

\* C10: while the cursor reports no error and every document materializes,
\* the rows of the emitted batches, in emission order, are exactly the
\* documents the cursor has yielded, in cursor order, and no batch is empty.
C10_CursorOrder ==
    ((\A i \in 1..Len(yielded) : yielded[i].clean)
        /\ (\A i \in 1..Len(emitted) : emitted[i].ok)) =>
       /\ EmittedRows = [i \in 1..Len(yielded) |-> yielded[i].id]
       /\ \A i \in 1..Len(yielded) : yielded[i].id = i
       /\ \A i \in 1..Len(emitted) : emitted[i].rows # <<>>

\* the cursor's documents came out in several batches: one emitted at a
\* Pending, the last at the end of the cursor
C10_Witness ==
    /\ innerEnded
    /\ Len(emitted) >= 2
    /\ \A i \in 1..Len(emitted) : emitted[i].ok
    /\ Len(yielded) = MaxDocs
    /\ EmittedRows = [i \in 1..MaxDocs |-> i]

(***************************************************************************)
(* Properties of the source provider's planning (checked under SpecSource).*)
(***************************************************************************)
SomeIndexOutOfRange(proj, n) ==
    proj.some /\ \E i \in 1..Len(proj.cols) : proj.cols[i] >= n

\* does got list exactly the fields of all at the projection's indices, in
\* the projection's order (all of them when there is no projection)
ListsProjected(got, proj, all) ==
    IF proj.some
    THEN /\ Len(got) = Len(proj.cols)
         /\ \A i \in 1..Len(got) : got[i] = all[proj.cols[i] + 1]
    ELSE got = all

C11_WitnessError ==
    /\ srcScan.called /\ ~srcScan.ok
    /\ wrapScan.called /\ ~wrapScan.ok /\ wrapScan.on.tag = "Lazy"

\* C12: the wire projection maps every field's source path to 1, and holds
\* _id: 0 exactly when no field's source path is "_id" (when one is, the
\* entry is _id: 1).
C12_WireProjection ==
    wire.made =>
      /\ \A i \in 1..Len(wire.of) :
           /\ wire.of[i].mongodb_field \in DOMAIN wire.doc
           /\ wire.doc[wire.of[i].mongodb_field] = 1
      /\ ("_id" \in DOMAIN wire.doc /\ wire.doc["_id"] = 0)
           <=> (\A i \in 1..Len(wire.of) : wire.of[i].mongodb_field # "_id")

C12_Witness ==
    /\ wire.made
    /\ Len(wire.of) = 1
    /\ wire.of[1].mongodb_field = "addr.city"
    /\ DOMAIN wire.doc = {"addr.city", "_id"}

C12_WitnessIdProjected ==
    /\ wire.made
    /\ \E i \in 1..Len(wire.of) : wire.of[i].mongodb_field = "_id"
    /\ wire.doc["_id"] = 1

(***************************************************************************)
(* Properties of the nested accessor (checked under SpecNested) and of the *)
(* document builder (checked under SpecBuilder).                           *)
(***************************************************************************)
\* every <<path, value>> of a document: the keys of the document, and under a
\* key that holds a sub-document the paths of the sub-document
RECURSIVE PathValues(_)
PathValues(doc) ==
    UNION { { << <<k>>, doc[k] >> }
            \cup (IF doc[k].t = "Document"
                  THEN { << <<k>> \o pv[1], pv[2] >> : pv \in PathValues(doc[k].v) }
                  ELSE {}) : k \in DOMAIN doc }

\* some path of the document reads all the segments
Reads(doc, segs) == \E pv \in PathValues(doc) : pv[1] = segs

\* a proper prefix of the segments reads a value that is not a document
Blocked(doc, segs) ==
    \E n \in 1..(Len(segs) - 1) :
        \E pv \in PathValues(doc) :
            pv[1] = SubSeq(segs, 1, n) /\ pv[2].t # "Document"

\* the descent stops at a document that lacks the next segment
Missing(doc, segs) == ~Reads(doc, segs) /\ ~Blocked(doc, segs)

NestedCalled == nestedRes.kind # "none"

\* C17 (as claimed): get_nested(doc, k) is NotPresent exactly when no path of
\* doc reads k's segments fully.
C17_NotPresentIffNoPath ==
    NestedCalled =>
      ((nestedRes.kind = "NotPresent") <=> ~Reads(nestedDoc, Split(nestedKey)))

\* C17 (amended): get_nested(doc, k) is NotPresent exactly when the descent
\* along k's segments reaches a document that lacks the next segment, every
\* segment before it holding a sub-document; it is UnexpectedType exactly when
\* a segment before the last holds a value that is not a document; otherwise
\* it is the value the path reads.  The empty key is the one-segment path of
\* the empty field name: NotPresent exactly when the root has no such field.
C17_AccessOutcomes ==
    NestedCalled =>
      LET segs == Split(nestedKey)
      IN  /\ (nestedRes.kind = "NotPresent") <=> Missing(nestedDoc, segs)
          /\ (nestedRes.kind = "UnexpectedType") <=> Blocked(nestedDoc, segs)
          /\ (nestedRes.kind = "Ok") <=> Reads(nestedDoc, segs)
          /\ nestedRes.kind = "Ok" => <<segs, nestedRes.v>> \in PathValues(nestedDoc)
          /\ nestedKey = <<>> =>
               ((nestedRes.kind = "NotPresent") <=> (<<>> \notin DOMAIN nestedDoc))

C17_Witness ==
    /\ nestedRes.kind = "UnexpectedType"
    /\ nestedKey = <<"a", ".", "b">>
    /\ ~Reads(nestedDoc, Split(nestedKey))

C17_WitnessEmptyKey ==
    /\ nestedRes.kind = "Ok"
    /\ nestedKey = <<>>

Appended == builderSt = "open" /\ lastLen >= 0

\* the row the last append_value call committed
LastRow == BuilderLen

RecordedFor(i) == \E e \in 1..Len(lastErrors) : lastErrors[e].col = i

FieldMissing(i) == Missing(lastDoc, Split(fields[i].mongodb_field))

FieldNull(i) == <<Split(fields[i].mongodb_field), BNull>> \in PathValues(lastDoc)

\* C13: after every append_value call that returns, with success or with
\* errors, every column builder and the validity buffer have the same length,
\* len(), one more than before the call; a column that recorded an error
\* holds null in that row.
C13_ColumnsAligned ==
    builderSt = "open" =>
      /\ \A i \in 1..Len(fields) : Len(columns[i]) = BuilderLen
      /\ lastLen >= 0 =>
           /\ BuilderLen = lastLen + 1
           /\ \A i \in 1..Len(fields) : RecordedFor(i) => columns[i][LastRow].null

C13_Witness ==
    /\ Appended
    /\ BuilderLen = 2
    /\ RecordedFor(1) /\ ~RecordedFor(2)
    /\ ~columns[2][LastRow].null

\* the column's source value is there but no pattern of the column's arm
\* takes it, or the path is blocked, or a non-nullable column has no value
ColumnFails(i) ==
    LET segs == Split(fields[i].mongodb_field)
    IN  \/ Blocked(lastDoc, segs)
        \/ \E pv \in PathValues(lastDoc) :
              /\ pv[1] = segs
              /\ IF pv[2].t = "Null" THEN ~fields[i].nullable
                 ELSE ~Accepts(fields[i].data_type, pv[2])
        \/ Missing(lastDoc, segs) /\ ~fields[i].nullable

\* C14: append_value returns success exactly when no column recorded an
\* error; otherwise it returns the errors, one per failing column, in column
\* order; the validity bit of the row is true exactly when it returns success.
C14_SuccessIffNoErrors ==
    Appended =>
      /\ lastRet.ok <=> lastErrors = <<>>
      /\ ~lastRet.ok => lastRet.errors = lastErrors
      /\ \A i \in 1..Len(fields) : RecordedFor(i) <=> ColumnFails(i)
      /\ \A e, g \in 1..Len(lastErrors) :
           e < g => lastErrors[e].col < lastErrors[g].col
      /\ validity[LastRow] = lastRet.ok

C14_Witness ==
    /\ Appended
    /\ ~lastRet.ok
    /\ Len(lastRet.errors) = 2
    /\ validity[LastRow] = FALSE

\* C15 (as claimed): for every schema and document, a nullable column whose
\* source field is absent gets a null cell and the row's validity bit is true.
C15_NullableAbsentRowValid ==
    Appended =>
      \A i \in 1..Len(fields) :
        (fields[i].nullable /\ FieldMissing(i)) =>
          /\ columns[i][LastRow].null
          /\ validity[LastRow] = TRUE

\* C15 (amended): a nullable column whose source field is absent gets a null
\* cell and records no error; the row's validity bit is true exactly when no
\* other column of the row recorded an error.
C15_NullableAbsentNoError ==
    Appended =>
      \A i \in 1..Len(fields) :
        (fields[i].nullable /\ FieldMissing(i)) =>
          /\ columns[i][LastRow].null
          /\ ~RecordedFor(i)
          /\ validity[LastRow] <=>
               ~(\E j \in 1..Len(fields) : j # i /\ RecordedFor(j))

C15_Witness ==
    /\ Appended
    /\ fields[2].nullable /\ FieldMissing(2)
    /\ columns[2][LastRow].null
    /\ RecordedFor(1)
    /\ validity[LastRow] = FALSE

\* C16: a non-nullable column whose source field is absent or holds Null
\* records an error (NotPresent for absent, UnexpectedType for Null), gets a
\* null cell, and the row is committed with validity false and the errors
\* returned; a nullable column gets a null cell and no error in both cases.
C16_AbsentOrNull ==
    Appended =>
      \A i \in 1..Len(fields) :
        (FieldMissing(i) \/ FieldNull(i)) =>
          /\ columns[i][LastRow].null
          /\ IF fields[i].nullable
             THEN ~RecordedFor(i)
             ELSE /\ \E e \in 1..Len(lastErrors) :
                        /\ lastErrors[e].col = i
                        /\ lastErrors[e].kind =
                             IF FieldMissing(i) THEN "NotPresent" ELSE "UnexpectedType"
                  /\ validity[LastRow] = FALSE
                  /\ ~lastRet.ok
                  /\ lastRet.errors = lastErrors

C16_Witness ==
    /\ Appended
    /\ ~fields[1].nullable /\ FieldNull(1)
    /\ ~fields[2].nullable /\ FieldMissing(2)
    /\ Len(lastRet.errors) = 2

\* C18: a column type the builder has no arm for is rejected when the builder
\* is constructed, so append_value is never reached with such a column.
C18_UnsupportedTypeRejected ==
    lastLen >= 0 => \A i \in 1..Len(fields) : fields[i].data_type \in SupportedTypes

(***************************************************************************)
(* Schema and batch sizes of the lazy cache wrapper (checked under Spec).  *)
(***************************************************************************)
\* C19: schema() of the wrapper is the same before and after the transition
\* from Lazy to Loaded: the table the swap installs is built with the
\* upstream's full schema.
C19_SchemaStable ==
    state.tag = "Loaded" => WrapperSchema(state) = WrapperSchema(Lazy)

C19_Witness ==
    /\ state.tag = "Loaded"
    /\ everLoaded
    /\ \E c \in Calls : LazyDone(c) /\ plan[c].proj.some

\* C20: when the upstream emitted several batches totalling n <= batch_size
\* rows, the stream of a lazy scan yields exactly one batch of n rows; and
\* every batch of a stream of the wrapper has at most the batch_size of the
\* plan it came from, also when the table was drained with another batch_size.
C20_OneBatchWithinBatchSize ==
    \A c \in Calls :
      LazyDone(c) =>
        /\ Len(RowsOfBatches(result[c])) <= plan[c].bs => Len(result[c]) <= 1
        /\ \A i \in 1..Len(result[c]) : Len(result[c][i].rows) <= plan[c].bs

\* C20, the second sentence alone: a plan with batch_size 1 is served a batch
\* that was drained with batch_size 2
C20_WithinBatchSize ==
    \A c \in Calls :
      LazyDone(c) =>
        \A i \in 1..Len(result[c]) : Len(result[c][i].rows) <= plan[c].bs

(***************************************************************************)
(* Races, recursion and failures of LazyExec::execute (checked under Spec  *)
(* and, for termination, under SpecFair).                                  *)
(***************************************************************************)
\* C21: the swap is idempotent under races: when an executor finishes its
\* drain and finds the cell already swapped to Loaded, the installed table
\* stays in the cell and the late executor's table is discarded.
C21_InstalledTableStays ==
    [][state.tag = "Loaded" => state'.mem.batches = state.mem.batches]_vars

\* C22: after a successful drain and swap the recursive execute(0) observes
\* Loaded and takes the delegated path, under every interleaving with other
\* executors; so one execute call drains at most once, recurses at most once,
\* and terminates when the upstream drain and the in-memory scan do.
C22_RecursionDelegates ==
    /\ [](\A c \in Calls : pc[c] = "recurse" => state.tag = "Loaded")
    /\ [][\A c \in Calls :
            (pc[c] = "recurse" /\ pc'[c] # "recurse") =>
                /\ pc'[c] = "done"
                /\ drains'[c] = drains[c]]_vars
    /\ [](\A c \in Calls : drains[c] <= 1)
    /\ \A c \in Calls : InFlight(c) ~> (pc[c] \in {"done", "failed"})

\* an execute that raced with another one has drained, swapped, recursed and
\* returned the stream of the table in the cell
C22_Witness ==
    \E c \in Calls :
        /\ LazyDone(c) /\ drains[c] = 1
        /\ overlapped
        /\ served[c].by # c

\* C23: drain tasks are not fire-and-forget: whenever an execute that found
\* the cell Lazy returns, with success or with the error of a failed
\* partition, none of the drain tasks it spawned is still running.
C23_NoDetachedTask ==
    \A c \in Calls :
        pc[c] \in {"done", "failed"} =>
            \A p \in Parts : tasks[c][p].st # "running"

\* C26: a failed drain is retryable: an execute that returns a drain error
\* leaves the cell as it was (Lazy, unless another executor stored a table),
\* every execute that finds the cell Lazy scans the upstream again whatever
\* failed before, and a drain that succeeds installs Loaded with the full
\* table, which the execute returns; a past failure is never cached.
C26_FailureNotCached ==
    /\ [][\A c \in Calls :
            (pc[c] # "failed" /\ pc'[c] = "failed") => state' = state]_vars
    /\ [][\A c \in Calls :
            (pc[c] = "planned" /\ plan[c].kind = "lazy" /\ pc'[c] # "planned"
               /\ state.tag = "Lazy")
            => (upstreamScans' = upstreamScans + 1 /\ drains'[c] = 1)]_vars
    /\ [][\A c \in Calls :
            (pc[c] = "swap" /\ pc'[c] = "recurse")
            => (state'.tag = "Loaded" /\ state'.mem.by = c
                  /\ CompleteTable(state'.mem))]_vars
    /\ [](\A c \in Calls :
            (LazyDone(c) /\ drains[c] = 1) =>
                RowsOfBatches(result[c]) = RowsOfBatches(Flatten(served[c].batches)))

\* one execute failed in its drain; afterwards another execute drained the
\* upstream again, installed its table and returned it
C26_Witness ==
    /\ ~overlapped
    /\ state.tag = "Loaded"
    /\ \E c, d \in Calls :
         /\ pc[c] = "failed" /\ drains[c] = 1
         /\ LazyDone(d) /\ drains[d] = 1 /\ served[d].by = d
         /\ state.mem.by = d
         /\ Len(RowsOfBatches(result[d])) = NParts * upVer

(***************************************************************************)
(* Documents through the source stream (checked under SpecStream).         *)
(***************************************************************************)
\* how many rows of the emitted batches are the document id
TimesEmitted(id) ==
    Cardinality({ jk \in (1..Len(emitted)) \X (1..MaxDocs) :
                    /\ jk[2] <= Len(emitted[jk[1]].rows)
                    /\ emitted[jk[1]].rows[jk[2]] = id })

AllClean == \A i \in 1..Len(yielded) : yielded[i].clean

\* C27 (as claimed): no document the cursor yielded is lost: each is a row
\* of exactly one emitted batch, also when the cursor reports a driver error
\* later within the same poll.
C27_NoDocumentLost ==
    AllClean => \A i \in 1..Len(yielded) : TimesEmitted(yielded[i].id) = 1

\* the ids of the documents the cursor yielded during the poll just made
NewIds ==
    [i \in 1..(Len(yielded') - Len(yielded)) |-> yielded'[Len(yielded) + i].id]

\* C27 (amended): the documents the cursor yields within one poll are, in
\* cursor order, the rows of the batch that poll emits, and rows of no other
\* batch, unless the poll returns an error item: when the cursor reports a
\* driver error within the poll, or a buffered document does not
\* materialize, the documents buffered in that poll are dropped and the poll
\* emits the error item only.
C27_LostOnlyWithError ==
    /\ [][pollCount' # pollCount =>
            CASE lastPoll' = "Batch" ->
                    /\ NewIds # <<>>
                    /\ emitted' = Append(emitted, BatchItem(NewIds))
              [] lastPoll' = "Error" ->
                    /\ Len(emitted') = Len(emitted) + 1
                    /\ ~emitted'[Len(emitted')].ok
                    /\ emitted'[Len(emitted')].rows = <<>>
                    /\ SubSeq(emitted', 1, Len(emitted)) = emitted
                    /\ \/ emitted'[Len(emitted')].err = "driver"
                       \/ \E i \in (Len(yielded) + 1)..Len(yielded') : ~yielded'[i].clean
              [] OTHER -> emitted' = emitted /\ NewIds = <<>>]_vars
    /\ [](\A i \in 1..Len(yielded) : TimesEmitted(yielded[i].id) <= 1)

\* a poll buffered documents that materialize, then met a driver error: the
\* error item is all it emitted
C27_Witness ==
    /\ AllClean
    /\ lastPoll = "Error"
    /\ lastBuffered > 0
    /\ emitted[Len(emitted)].err = "driver"
    /\ \E i \in 1..Len(yielded) : TimesEmitted(yielded[i].id) = 0

(***************************************************************************)
(* Date and time columns of the document builder (checked under            *)
(* SpecBuilder).                                                           *)
(***************************************************************************)
\* the DateTime the last document holds at the path of column i, if it does
HasDateTime(i) ==
    /\ DocGetNested(lastDoc, fields[i].mongodb_field).kind = "Ok"
    /\ DocGetNested(lastDoc, fields[i].mongodb_field).v.t = "DateTime"

SourceDateTime(i) == DocGetNested(lastDoc, fields[i].mongodb_field).v.v

\* sec * per_sec + sub as an exact integer
ExactSinceMidnight(dt, perSec, sub) ==
    AddLimbs(MulLimbs(ToLimbs(dt.secs % SecsPerDay), ToLimbs(perSec)), ToLimbs(sub))

ExactTime64(data_type, dt) ==
    IF data_type = "Time64(Microsecond)"
    THEN ExactSinceMidnight(dt, MicrosPerSec, dt.nanos \div NanosPerMicro)
    ELSE ExactSinceMidnight(dt, NanosPerSec, dt.nanos)

\* C24: for a Time64 column and every DateTime value, the call appends the
\* exact integer sec*1_000_000 + ns/1000 (unit Microsecond) or
\* sec*1_000_000_000 + ns (unit Nanosecond), sec and ns being the seconds
\* since midnight and the nanoseconds of the time of day: the intermediate
\* arithmetic neither overflows nor wraps.
C24_Time64Exact ==
    lastLen >= 0 =>
      \A i \in 1..Len(fields) :
        (/\ fields[i].data_type \in {"Time64(Microsecond)", "Time64(Nanosecond)"}
         /\ HasDateTime(i))
        => /\ builderSt = "open"
           /\ columns[i][LastRow] =
                ValueCell(ExactTime64(fields[i].data_type, SourceDateTime(i)))

\* C25: for a Date32 column and every DateTime value, instants before
\* 1970-01-01 included, the appended cell is the floor of the seconds since
\* the epoch divided by 86400.
C25_Date32Floor ==
    lastLen >= 0 =>
      \A i \in 1..Len(fields) :
        (/\ fields[i].data_type = "Date32"
         /\ HasDateTime(i)
         /\ Len(columns[i]) = lastLen + 1)
        => columns[i][lastLen + 1] =
             ValueCell(FloorDiv(Timestamp(SourceDateTime(i)), SecsPerDay))
====
